---- MODULE Spec2Model ----
(***************************************************************************)
(* The NAT model of src/model.py (a non-autoregressive generator on top of *)
(* a BERT encoder) as a state machine.  A tensor [B, W] is a sequence of B *)
(* rows, each a sequence of W integers; column p of the code (0-based) is  *)
(* element p + 1 of a row.  The encoder (self.bert), the prediction head   *)
(* (self.cls), the length head and the loss criterion are external: what   *)
(* they return is chosen nondeterministically from small sets.             *)
(***************************************************************************)
EXTENDS Integers, Sequences, FiniteSets, TLC

VARIABLES
    pc,                 \* position of the call in progress
    entry,              \* the method called: forward, forward_glat, forward_decode, ...
    use_glat,           \* self.use_glat
    glat_f,             \* self.glat_f as <<numerator, denominator>>
    decode,             \* forward's decode flag
    source_ids,         \* forward's source_ids / forward_decode's input_ids
    target_ids,
    pseudo_ids,
    num_source_tokens,
    num_target_tokens,
    length_arg,         \* forward_decode's length_out argument: <<>> is None
    num_tokens,         \* create_mask_and_position_ids' arguments
    max_len,
    offset,             \* <<>> is None, <<o>> a tensor o
    source_mask,
    target_mask,
    position_ids,
    source_len,         \* the local source_len of the call
    input_ids,          \* the joint input of the latest encoder pass
    bert_calls,         \* the steps taken so far, in order
    N,
    length_argmax,      \* the length head's argmax, before the clamp
    length_out,
    ret                 \* the value the call returned

vars == <<pc, entry, use_glat, glat_f, decode, source_ids, target_ids, pseudo_ids,
          num_source_tokens, num_target_tokens, length_arg, num_tokens, max_len,
          offset, source_mask, target_mask, position_ids, source_len, input_ids,
          bert_calls, N, length_argmax, length_out,
          ret>>

(***************************************************************************)
(* Program constants.                                                      *)
(***************************************************************************)
pad_word_id == 0
mask_word_id == 103
MaxPositions == 512
MinDecodeLength == 7
MaxDecodeLength == 48
\* 1e-5 is 1 / EpsInv
EpsInv == 100000

(***************************************************************************)
(* Bounds of the model.                                                    *)
(***************************************************************************)
MaxLen == 3
MaxCount == 4
MaxOffset == 2
MaxMaskLen == 2

\* the examples of a batch; the code treats them alike
Examples == {1, 2}

(***************************************************************************)
(* Tensor helpers.                                                         *)
(***************************************************************************)
\* torch.arange(0, n)
Arange(n) == [p \in 1..n |-> p - 1]

\* a [B, w] tensor filled with v
Full(w, v) == [b \in Examples |-> [p \in 1..w |-> v]]

\* x.shape[1] of a [B, W] tensor
Width(x) == Len(x[1])

\* torch.cat((x, y), dim=1)
Cat(x, y) == [b \in Examples |-> x[b] \o y[b]]

RECURSIVE SumRange(_, _, _)
SumRange(s, lo, hi) ==
    IF lo > hi THEN 0
    ELSE IF lo = hi THEN s[lo]
    ELSE LET mid == (lo + hi) \div 2
         IN  SumRange(s, lo, mid) + SumRange(s, mid + 1, hi)

\* the sum of a row (the row is evaluated once, as the bound v)
SumSeq(s) == CHOOSE t \in {SumRange(v, 1, Len(v)) : v \in {s}} : TRUE

\* x.sum(-1)
RowSum(x) == [b \in Examples |-> SumSeq(x[b])]

(***************************************************************************)
(* NAT.create_mask_and_position_ids                                        *)
(***************************************************************************)
MaskOffByOne(base, count) == IF base <= count THEN 1 ELSE 0

\* (base_position_matrix < num_tokens.view(-1, 1)).type_as(num_tokens), one entry
MaskEntry(base, count) == IF base < count THEN 1 ELSE 0

create_mask_and_position_ids(num, len, off) ==
    LET base_position_matrix == Arange(len)
        mask == [b \in Examples |->
                    [p \in 1..len |-> MaskEntry(base_position_matrix[p], num[b])]]
        shifted == IF off = <<>>
                   THEN [b \in Examples |-> base_position_matrix]
                   ELSE [b \in Examples |->
                            [p \in 1..len |-> base_position_matrix[p] + off[1][b]]]
        pos == [b \in Examples |-> [p \in 1..len |-> shifted[b][p] * mask[b][p]]]
    IN  [mask |-> mask, position_ids |-> pos]

(***************************************************************************)
(* NAT.create_attention_mask                                               *)
(***************************************************************************)
VisibleIgnoringValidity(fw, tw, fm, tm) == (fw = 0) \/ (tw = 1)

\* ((from_weight == 0) | (to_weight == 1)) & mask, one entry
Visible(fw, tw, fm, tm) == ((fw = 0) \/ (tw = 1)) /\ fm /\ tm

create_attention_mask(smask, tmask) ==
    LET sl == Width(smask)
        tl == Width(tmask)
        weight == [i \in 1..(sl + tl) |-> IF i <= sl THEN 1 ELSE 0]
        mask == [b \in Examples |->
                    [i \in 1..(sl + tl) |-> Cat(smask, tmask)[b][i] = 1]]
    IN  [b \in Examples |->
            [i \in 1..(sl + tl) |->
                [j \in 1..(sl + tl) |->
                    IF Visible(weight[i], weight[j], mask[b][i], mask[b][j])
                    THEN 1 ELSE 0]]]

(***************************************************************************)
(* Input domains.                                                          *)
(***************************************************************************)
\* every [B, w] tensor over the values vs
Tensors(w, vs) == [Examples -> [1..w -> vs]]

Counts(maxc) == [Examples -> 0..maxc]

Offsets == {<<>>} \cup {<<o>> : o \in [Examples -> 0..MaxOffset]}

Unused == <<>>

(***************************************************************************)
(* SpecPos: calls of create_mask_and_position_ids.                         *)
(***************************************************************************)
InitPos ==
    /\ pc = "start"
    /\ entry = "create_mask_and_position_ids"
    /\ num_tokens \in Counts(MaxCount)
    /\ max_len \in 0..MaxLen
    /\ offset \in Offsets
    /\ use_glat = FALSE /\ glat_f = <<1, 2>> /\ decode = FALSE
    /\ source_ids = Unused /\ target_ids = Unused /\ pseudo_ids = Unused
    /\ num_source_tokens = Unused /\ num_target_tokens = Unused
    /\ length_arg = Unused
    /\ source_mask = Unused /\ target_mask = Unused /\ position_ids = Unused
    /\ source_len = 0 /\ input_ids = Unused /\ bert_calls = <<>> /\ N = Unused
    /\ length_argmax = Unused /\ length_out = Unused /\ ret = Unused

CallCreateMaskAndPositionIds ==
    /\ pc = "start"
    /\ entry = "create_mask_and_position_ids"
    /\ ret' = create_mask_and_position_ids(num_tokens, max_len, offset)
    /\ pc' = "done"
    /\ UNCHANGED <<entry, use_glat, glat_f, decode, source_ids, target_ids,
                   pseudo_ids, num_source_tokens, num_target_tokens, length_arg,
                   num_tokens, max_len, offset, source_mask, target_mask,
                   position_ids, source_len, input_ids, bert_calls, N,
                   length_argmax, length_out>>

NextPos == CallCreateMaskAndPositionIds

SpecPos == InitPos /\ [][NextPos]_vars

(***************************************************************************)
(* SpecMask: calls of create_attention_mask on arbitrary 0/1 masks.        *)
(***************************************************************************)
InitMask ==
    /\ pc = "start"
    /\ entry = "create_attention_mask"
    /\ \E sl \in 0..MaxMaskLen, tl \in 0..MaxMaskLen :
          /\ source_mask \in Tensors(sl, {0, 1})
          /\ target_mask \in Tensors(tl, {0, 1})
    /\ num_tokens = Unused /\ max_len = 0 /\ offset = <<>>
    /\ use_glat = FALSE /\ glat_f = <<1, 2>> /\ decode = FALSE
    /\ source_ids = Unused /\ target_ids = Unused /\ pseudo_ids = Unused
    /\ num_source_tokens = Unused /\ num_target_tokens = Unused
    /\ length_arg = Unused
    /\ position_ids = Unused
    /\ source_len = 0 /\ input_ids = Unused /\ bert_calls = <<>> /\ N = Unused
    /\ length_argmax = Unused /\ length_out = Unused /\ ret = Unused

CallCreateAttentionMask ==
    /\ pc = "start"
    /\ entry = "create_attention_mask"
    /\ ret' = create_attention_mask(source_mask, target_mask)
    /\ pc' = "done"
    /\ UNCHANGED <<entry, use_glat, glat_f, decode, source_ids, target_ids,
                   pseudo_ids, num_source_tokens, num_target_tokens, length_arg,
                   num_tokens, max_len, offset, source_mask, target_mask,
                   position_ids, source_len, input_ids, bert_calls, N,
                   length_argmax, length_out>>

NextMask == CallCreateAttentionMask

SpecMask == InitMask /\ [][NextMask]_vars

(***************************************************************************)
(* Python slices of one row.                                               *)
(***************************************************************************)
Min(a, b) == IF a < b THEN a ELSE b

Max(a, b) == IF a > b THEN a ELSE b

\* how many elements row[:n] keeps of a row of w elements
KeptTo(w, n) == IF n >= 0 THEN Min(n, w) ELSE Max(w + n, 0)

\* row[:n]
SliceTo(row, n) == SubSeq(row, 1, KeptTo(Len(row), n))

\* how many elements row[n:] keeps of a row of w elements
KeptFrom(w, n) == IF n >= 0 THEN Max(w - n, 0) ELSE Min(0 - n, w)

\* x[:, :n]
SliceColsTo(x, n) == [b \in Examples |-> SliceTo(x[b], n)]

(***************************************************************************)
(* The inputs of forward, forward_glat and forward_decode.                 *)
(***************************************************************************)
\* token ids the ground truth holds at a valid position
GroundVocab == {5, mask_word_id}

\* token ids the prediction head's argmax yields
PredVocab == {5, 6}

\* per-position values of the loss criterion
LossValues == {1, 2}

\* values of self.glat_f
GlatFs == {<<1, 2>>, <<1, 1>>, <<3, 2>>}

\* the rows of width w whose first min(c, w) columns hold tokens of vs, the rest padding
Rows(w, c, vs) ==
    {r \in [1..w -> vs \cup {pad_word_id}] :
        \A p \in 1..w : IF p - 1 < c THEN r[p] \in vs ELSE r[p] = pad_word_id}

\* a source row of width w with c tokens: 11, 12, ...
SourceRow(w, c) == [p \in 1..w |-> IF p - 1 < c THEN 10 + p ELSE pad_word_id]

\* every permutation of 0 .. w - 1, as torch.sort(torch.rand(...)) may return
Perms(w) ==
    {s \in [1..w -> 0..(w - 1)] : \A i, j \in 1..w : (s[i] = s[j]) => (i = j)}

(***************************************************************************)
(* NAT.forward (training) and NAT.forward_glat                             *)
(***************************************************************************)
AssertsWidthsOnly == Width(source_ids) > 0 /\ Width(target_ids) > 0

\* assert target_len == pseudo_len; assert source_len > 0 and target_len > 0
AssertsHold ==
    /\ Width(target_ids) = Width(pseudo_ids)
    /\ Width(source_ids) > 0
    /\ Width(target_ids) > 0

Training == entry = "forward" /\ ~decode

RunsGlatBeforeDecode == entry = "forward" /\ use_glat

\* forward reaches "if self.use_glat" only when decode is not set
RunsGlat == Training /\ use_glat

\* the joint encoder input of forward and of forward_glat, and the feed_bert call
FeedJoint(label, next) ==
    LET src == create_mask_and_position_ids(num_source_tokens, Width(source_ids), <<>>)
        tgt == create_mask_and_position_ids(num_target_tokens, Width(target_ids),
                                            <<num_source_tokens>>)
    IN  /\ source_len' = Width(source_ids)
        /\ input_ids' = Cat(source_ids, pseudo_ids)
        /\ source_mask' = src.mask
        /\ target_mask' = tgt.mask
        /\ position_ids' = Cat(src.position_ids, tgt.position_ids)
        /\ bert_calls' = Append(bert_calls, label)
        /\ pc' = next

ForwardAssertFail ==
    /\ Training
    /\ pc = (IF use_glat THEN "glat_done" ELSE "start")
    /\ ~AssertsHold
    /\ pc' = "AssertionError"
    /\ UNCHANGED <<entry, use_glat, glat_f, decode, source_ids, target_ids,
                   pseudo_ids, num_source_tokens, num_target_tokens, length_arg,
                   num_tokens, max_len, offset, source_mask, target_mask,
                   position_ids, source_len, input_ids, bert_calls, N,
                   length_argmax, length_out, ret>>

GlatAssertFail ==
    /\ pc = "start"
    /\ RunsGlat \/ entry = "forward_glat"
    /\ ~AssertsHold
    /\ pc' = "AssertionError"
    /\ UNCHANGED <<entry, use_glat, glat_f, decode, source_ids, target_ids,
                   pseudo_ids, num_source_tokens, num_target_tokens, length_arg,
                   num_tokens, max_len, offset, source_mask, target_mask,
                   position_ids, source_len, input_ids, bert_calls, N,
                   length_argmax, length_out, ret>>

\* forward_glat up to its encoder pass
GlatFeed ==
    /\ pc = "start"
    /\ RunsGlat \/ entry = "forward_glat"
    /\ AssertsHold
    /\ FeedJoint("bert:glat", "bert_glat")
    /\ UNCHANGED <<entry, use_glat, glat_f, decode, source_ids, target_ids,
                   pseudo_ids, num_source_tokens, num_target_tokens, length_arg,
                   num_tokens, max_len, offset, N, length_argmax, length_out, ret>>

\* ((prediction_tokens != target_ids) & (target_mask == 1)).sum(-1), one example
Mismatches(pred, tgt, mask) ==
    SumSeq([p \in 1..Len(tgt) |-> IF pred[p] # tgt[p] /\ mask[p] = 1 THEN 1 ELSE 0])

\* N = (... .sum(-1) * self.glat_f).long(), one example
GlatCount(pred, tgt, mask, f) == (Mismatches(pred, tgt, mask) * f[1]) \div f[2]

GlatSelectUnfiltered(indice, valid, n) == SliceTo(indice, n)

\* indice[indice < target_mask[i].sum()][:n]
GlatSelect(indice, valid, n) ==
    SliceTo(SelectSeq(indice, LAMBDA x : x < valid), n)

\* pseudo_ids[i, ind] = target_ids[i, ind], one example
Reveal(pseudo, tgt, ind) ==
    [p \in 1..Len(pseudo) |->
        IF \E k \in 1..Len(ind) : ind[k] = p - 1 THEN tgt[p] ELSE pseudo[p]]

\* forward_glat after its encoder pass (self.glat_random_prob is None)
GlatSample ==
    /\ pc = "bert_glat"
    /\ \E prediction_tokens \in Tensors(Width(target_ids), PredVocab),
          indices \in [Examples -> Perms(Width(pseudo_ids))] :
          LET n == [b \in Examples |->
                      GlatCount(prediction_tokens[b], target_ids[b],
                                target_mask[b], glat_f)]
              mutated == [b \in Examples |->
                            Reveal(pseudo_ids[b], target_ids[b],
                                   GlatSelect(indices[b], SumSeq(target_mask[b]),
                                              n[b]))]
          IN  /\ N' = n
              /\ pseudo_ids' = mutated
              /\ bert_calls' = Append(bert_calls, "glat_mutate")
              /\ IF entry = "forward_glat"
                 THEN pc' = "done" /\ ret' = <<mutated, n>>
                 ELSE pc' = "glat_done" /\ ret' = ret
    /\ UNCHANGED <<entry, use_glat, glat_f, decode, source_ids, target_ids,
                   num_source_tokens, num_target_tokens, length_arg,
                   num_tokens, max_len, offset, source_mask, target_mask,
                   position_ids, source_len, input_ids, length_argmax, length_out>>

\* forward up to its encoder pass
ForwardFeed ==
    /\ Training
    /\ pc = (IF use_glat THEN "glat_done" ELSE "start")
    /\ AssertsHold
    /\ FeedJoint("bert:train", "bert_train")
    /\ UNCHANGED <<entry, use_glat, glat_f, decode, source_ids, target_ids,
                   pseudo_ids, num_source_tokens, num_target_tokens, length_arg,
                   num_tokens, max_len, offset, N, length_argmax, length_out, ret>>

LossMeanOverAll(loss, mask) ==
    <<SumSeq([b \in Examples |-> SumSeq(loss[b])]) * EpsInv,
      Cardinality(Examples) * Width(mask) * EpsInv + 1>>

\* (loss * mask / (torch.sum(mask) + 1e-5)).sum() as the fraction <<num, den>>
loss_mask_and_normalize(loss, mask) ==
    LET masked == [b \in Examples |->
                      [p \in 1..Len(loss[b]) |-> loss[b][p] * mask[b][p]]]
        denominator == SumSeq([b \in Examples |-> SumSeq(mask[b])]) * EpsInv + 1
    IN  <<SumSeq([b \in Examples |-> SumSeq(masked[b])]) * EpsInv, denominator>>

\* forward after its encoder pass: the two losses, and mean(N) with GLAT
ForwardLoss ==
    /\ pc = "bert_train"
    /\ \E masked_lm_loss \in Tensors(Width(target_ids), LossValues) :
          LET pseudo_lm_loss == loss_mask_and_normalize(masked_lm_loss, target_mask)
              length_loss == [cross_entropy_target |-> RowSum(target_mask)]
          IN  ret' = [masked_lm_loss |-> masked_lm_loss,
                      out |-> IF use_glat
                              THEN <<pseudo_lm_loss, length_loss,
                                     <<SumSeq([b \in Examples |-> N[b]]),
                                       Cardinality(Examples)>> >>
                              ELSE <<pseudo_lm_loss, length_loss>>]
    /\ pc' = "done"
    /\ UNCHANGED <<entry, use_glat, glat_f, decode, source_ids, target_ids,
                   pseudo_ids, num_source_tokens, num_target_tokens, length_arg,
                   num_tokens, max_len, offset, source_mask, target_mask,
                   position_ids, source_len, input_ids, bert_calls, N,
                   length_argmax, length_out>>

(***************************************************************************)
(* SpecGlat: calls of forward_glat on an all-mask pseudo-target.           *)
(***************************************************************************)
MaxGlatLen == 2

InitGlat ==
    /\ pc = "start"
    /\ entry = "forward_glat"
    /\ use_glat = TRUE /\ decode = FALSE
    /\ glat_f \in GlatFs
    /\ \E sl \in 0..1, tl \in 0..MaxGlatLen, pl \in 0..MaxGlatLen :
          /\ num_source_tokens = [b \in Examples |-> sl]
          /\ source_ids = [b \in Examples |-> SourceRow(sl, num_source_tokens[b])]
          /\ num_target_tokens \in Counts(tl)
          /\ target_ids \in [Examples -> [1..tl -> GroundVocab \cup {pad_word_id}]]
          /\ \A b \in Examples :
                target_ids[b] \in Rows(tl, num_target_tokens[b], GroundVocab)
          /\ pseudo_ids = Full(pl, mask_word_id)
    /\ length_arg = Unused
    /\ num_tokens = Unused /\ max_len = 0 /\ offset = <<>>
    /\ source_mask = Unused /\ target_mask = Unused /\ position_ids = Unused
    /\ source_len = 0 /\ input_ids = Unused /\ bert_calls = <<>> /\ N = Unused
    /\ length_argmax = Unused /\ length_out = Unused /\ ret = Unused

NextGlat == GlatAssertFail \/ GlatFeed \/ GlatSample

SpecGlat == InitGlat /\ [][NextGlat]_vars

(***************************************************************************)
(* NAT.forward with decode set, and NAT.forward_decode                     *)
(***************************************************************************)
Decoding == entry = "forward" /\ decode

\* source_ids != self.pad_word_id, as 0/1
NonPad(ids) ==
    [b \in Examples |->
        [p \in 1..Len(ids[b]) |-> IF ids[b][p] # pad_word_id THEN 1 ELSE 0]]

\* torch.arange(w).repeat(B, 1).masked_fill_(~source_mask, 0)
SourcePositions(ids) ==
    [b \in Examples |->
        [p \in 1..Len(ids[b]) |-> IF ids[b][p] # pad_word_id THEN p - 1 ELSE 0]]

\* the source-only encoder pass of forward_decode, taken when length_out is None
DecodeLengthPass ==
    /\ pc = "start"
    /\ Decoding \/ (entry = "forward_decode" /\ length_arg = <<>>)
    /\ source_len' = Width(source_ids)
    /\ input_ids' = source_ids
    /\ source_mask' = NonPad(source_ids)
    /\ target_mask' = Full(0, 0)
    /\ position_ids' = SourcePositions(source_ids)
    /\ bert_calls' = Append(bert_calls, "bert:length")
    /\ pc' = "bert_length"
    /\ UNCHANGED <<entry, use_glat, glat_f, decode, source_ids, target_ids,
                   pseudo_ids, num_source_tokens, num_target_tokens, length_arg,
                   num_tokens, max_len, offset, N, length_argmax, length_out, ret>>

ClampAbove(r) == IF r > MaxDecodeLength THEN MaxDecodeLength ELSE r

\* length_out[length_out > 48] = 48; length_out[length_out < 7] = 7
ClampLength(r) ==
    IF r > MaxDecodeLength THEN MaxDecodeLength
    ELSE IF r < MinDecodeLength THEN MinDecodeLength ELSE r

\* length_out.max().item()
MaxSeq(x) == CHOOSE m \in {x[b] : b \in DOMAIN x} : \A b \in DOMAIN x : x[b] <= m

NeverTruncated(tlen, slen) == slen

\* if target_len + source_len > 512: source_len = 512 - target_len
TruncatedSourceLen(tlen, slen) ==
    IF tlen + slen > MaxPositions THEN MaxPositions - tlen ELSE slen

AlwaysMaskToken(base, len) == mask_word_id

\* pseudo_ids filled with the mask token, then pseudo_ids[~pseudo_mask] = pad
PseudoToken(base, len) == IF base < len THEN mask_word_id ELSE pad_word_id

\* base_position_matrix * pseudo_mask + source_mask.sum(-1), one entry
PseudoPosition(base, len, count) == base * MaskEntry(base, len) + count

\* the joint input of forward_decode's final pass, and the feed_bert call
DecodeJoint(lens, target_len, slen, src_ids, src_pos, src_mask, src_count) ==
    /\ length_out' = lens
    /\ source_len' = slen
    /\ input_ids' =
          Cat(src_ids, [b \in Examples |->
                           [p \in 1..target_len |-> PseudoToken(p - 1, lens[b])]])
    /\ source_mask' = src_mask
    /\ target_mask' = [b \in Examples |->
                          [p \in 1..target_len |-> MaskEntry(p - 1, lens[b])]]
    /\ position_ids' =
          Cat(src_pos, [b \in Examples |->
                           [p \in 1..target_len |->
                               PseudoPosition(p - 1, lens[b], src_count[b])]])
    /\ bert_calls' = Append(bert_calls, "bert:decode")
    /\ pc' = "bert_decode"

\* x[:, :slen] when the source is cut, x otherwise
CutSource(x, tlen, slen) ==
    IF tlen + Width(source_ids) > MaxPositions THEN SliceColsTo(x, slen) ELSE x

\* forward_decode from target_len on, up to the joint encoder pass; each
\* local is bound once, as the code computes it once
DecodeFeed(lens) ==
    \E target_len \in {MaxSeq(lens)} :
    \E slen \in {TruncatedSourceLen(target_len, Width(source_ids))} :
    \E src_mask \in {CutSource(NonPad(source_ids), target_len, slen)} :
    \E src_count \in {RowSum(src_mask)} :
        DecodeJoint(lens, target_len, slen,
                    CutSource(source_ids, target_len, slen),
                    CutSource(SourcePositions(source_ids), target_len, slen),
                    src_mask, src_count)

\* the argmax of the length head
RawLengths == {3, 7, 30, 48, 60}

\* forward_decode after its source-only pass: the inferred length, clamped
DecodeInferLength ==
    /\ pc = "bert_length"
    /\ \E raw \in [Examples -> RawLengths] :
          /\ length_argmax' = raw
          /\ DecodeFeed([b \in Examples |-> ClampLength(raw[b])])
    /\ UNCHANGED <<entry, use_glat, glat_f, decode, source_ids, target_ids,
                   pseudo_ids, num_source_tokens, num_target_tokens, length_arg,
                   num_tokens, max_len, offset, N, ret>>

\* forward_decode with a length_out of the caller's: length_out += 1
DecodeSuppliedLength ==
    /\ pc = "start"
    /\ entry = "forward_decode" /\ length_arg # <<>>
    /\ DecodeFeed([b \in Examples |-> length_arg[1][b] + 1])
    /\ UNCHANGED <<entry, use_glat, glat_f, decode, source_ids, target_ids,
                   pseudo_ids, num_source_tokens, num_target_tokens, length_arg,
                   num_tokens, max_len, offset, N, length_argmax, ret>>

\* the encoder's position table holds MaxPositions rows
BeyondCapacity ==
    ~ /\ Width(input_ids) <= MaxPositions
      /\ \A b \in Examples, p \in 1..Width(position_ids) :
            position_ids[b][p] < MaxPositions

\* sequence_output[:, source_len:] and pseudo_mask agree in width
ShapesAgree == KeptFrom(Width(input_ids), source_len) = Width(target_mask)

\* an encoder whose position table is too short for the input raises
DecodeEncoderRaises ==
    /\ pc = "bert_decode"
    /\ BeyondCapacity
    /\ pc' = "IndexError"
    /\ UNCHANGED <<entry, use_glat, glat_f, decode, source_ids, target_ids,
                   pseudo_ids, num_source_tokens, num_target_tokens, length_arg,
                   num_tokens, max_len, offset, source_mask, target_mask,
                   position_ids, source_len, input_ids, bert_calls, N,
                   length_argmax, length_out, ret>>

\* prediction_tokens[~pseudo_mask] = pad raises when the widths differ
DecodeShapeError ==
    /\ pc = "bert_decode"
    /\ ~ShapesAgree
    /\ pc' = "IndexError"
    /\ UNCHANGED <<entry, use_glat, glat_f, decode, source_ids, target_ids,
                   pseudo_ids, num_source_tokens, num_target_tokens, length_arg,
                   num_tokens, max_len, offset, source_mask, target_mask,
                   position_ids, source_len, input_ids, bert_calls, N,
                   length_argmax, length_out, ret>>

\* the head's argmax over the target positions: one id per example, or alternating
HeadOutputs(w) ==
    {[b \in Examples |-> [p \in 1..w |-> v[b]]] : v \in [Examples -> PredVocab]}
    \cup {[b \in Examples |-> [p \in 1..w |-> IF p % 2 = 1 THEN 5 ELSE pad_word_id]]}

\* (count, total) of torch.true_divide(count, total)
LenAcc(truth, pred) ==
    <<Cardinality({b \in Examples : truth[b] = pred[b]}), Cardinality(Examples)>>

TokensAcc(tokens, tgt) ==
    LET min_size == Min(Width(tgt), Width(tokens))
        tmask == SliceColsTo(NonPad(tgt), min_size)
        hit == [b \in Examples |->
                   [p \in 1..min_size |->
                       IF tokens[b][p] = tgt[b][p] /\ tmask[b][p] = 1 THEN 1 ELSE 0]]
    IN  <<SumSeq(RowSum(hit)), SumSeq(RowSum(tmask))>>

\* forward_decode after its joint pass, and the accuracies forward adds
DecodePredict ==
    /\ pc = "bert_decode"
    /\ ShapesAgree
    /\ \E head \in HeadOutputs(Width(target_mask)) :
          LET prediction_tokens ==
                  [b \in Examples |->
                      [p \in 1..Width(target_mask) |->
                          IF target_mask[b][p] = 1 THEN head[b][p]
                          ELSE pad_word_id]]
          IN  ret' = [head |-> head,
                      out |-> IF entry = "forward"
                              THEN <<prediction_tokens, length_out,
                                     LenAcc(RowSum(NonPad(target_ids)), length_out),
                                     TokensAcc(prediction_tokens, target_ids)>>
                              ELSE <<prediction_tokens, length_out>>]
    /\ pc' = "done"
    /\ UNCHANGED <<entry, use_glat, glat_f, decode, source_ids, target_ids,
                   pseudo_ids, num_source_tokens, num_target_tokens, length_arg,
                   num_tokens, max_len, offset, source_mask, target_mask,
                   position_ids, source_len, input_ids, bert_calls, N,
                   length_argmax, length_out>>

(***************************************************************************)
(* SpecDecode: calls of forward with decode set and of forward_decode.     *)
(***************************************************************************)
\* widths of the source tensor
DecodeWidths == {5, 470, 512}

\* length_out arguments of forward_decode
SuppliedLengths == {0, 47, 511, 512}

\* the source rows of width w: full, one padding column, padding inside
DecodeRows(w) ==
    {SourceRow(w, w), SourceRow(w, w - 1)}
    \cup (IF w >= 3
          THEN {[p \in 1..w |-> IF p = 2 THEN pad_word_id ELSE 10 + p]}
          ELSE {})

\* a ground truth of 8 tokens in a tensor 9 wide
DecodeTarget == [b \in Examples |-> <<5, 6, 5, 5, 5, 5, 5, 5, pad_word_id>>]

\* forward's use_glat, target_ids and pseudo_ids when decode is set
DecodeCalls ==
    {[glat |-> TRUE, target |-> DecodeTarget, pseudo |-> Full(9, mask_word_id)],
     [glat |-> FALSE, target |-> DecodeTarget, pseudo |-> Full(4, mask_word_id)],
     [glat |-> FALSE, target |-> Full(0, 5), pseudo |-> Full(0, mask_word_id)]}

InitDecodeOf(widths, supplied) ==
    /\ pc = "start"
    /\ \E w \in widths : source_ids \in [Examples -> DecodeRows(w)]
    /\ \/ /\ entry = "forward"
          /\ decode = TRUE
          /\ \E c \in DecodeCalls :
                /\ use_glat = c.glat
                /\ target_ids = c.target
                /\ pseudo_ids = c.pseudo
          /\ num_source_tokens = RowSum(NonPad(source_ids))
          /\ num_target_tokens = RowSum(NonPad(target_ids))
          /\ length_arg = <<>>
       \/ /\ entry = "forward_decode"
          /\ decode = FALSE
          /\ use_glat = FALSE
          /\ target_ids = Unused /\ pseudo_ids = Unused
          /\ num_source_tokens = Unused /\ num_target_tokens = Unused
          /\ length_arg \in {<<>>} \cup {<<l>> : l \in [Examples -> supplied]}
    /\ glat_f = <<1, 2>>
    /\ num_tokens = Unused /\ max_len = 0 /\ offset = <<>>
    /\ source_mask = Unused /\ target_mask = Unused /\ position_ids = Unused
    /\ source_len = 0 /\ input_ids = Unused /\ bert_calls = <<>> /\ N = Unused
    /\ length_argmax = Unused /\ length_out = Unused /\ ret = Unused

InitDecode == InitDecodeOf(DecodeWidths, SuppliedLengths)

NextDecode ==
    \/ DecodeLengthPass
    \/ DecodeInferLength
    \/ DecodeSuppliedLength
    \/ DecodeEncoderRaises
    \/ DecodeShapeError
    \/ DecodePredict

SpecDecode == InitDecode /\ [][NextDecode]_vars

(***************************************************************************)
(* Spec: calls of forward in its three modes, and of forward_decode.       *)
(***************************************************************************)
MaxSrcLen == 1
MaxTgtLen == 2

InitTrain ==
    /\ pc = "start"
    /\ entry = "forward"
    /\ decode = FALSE
    /\ use_glat \in BOOLEAN
    /\ glat_f = <<1, 2>>
    /\ \E sl \in 0..MaxSrcLen, tl \in 0..MaxTgtLen, pl \in 0..MaxTgtLen :
          /\ num_source_tokens \in Counts(sl)
          /\ source_ids = [b \in Examples |-> SourceRow(sl, num_source_tokens[b])]
          /\ num_target_tokens \in Counts(tl)
          /\ target_ids =
                [b \in Examples |->
                    [p \in 1..tl |-> IF p - 1 < num_target_tokens[b] THEN 5
                                     ELSE pad_word_id]]
          /\ pseudo_ids = Full(pl, mask_word_id)
    /\ length_arg = Unused
    /\ num_tokens = Unused /\ max_len = 0 /\ offset = <<>>
    /\ source_mask = Unused /\ target_mask = Unused /\ position_ids = Unused
    /\ source_len = 0 /\ input_ids = Unused /\ bert_calls = <<>> /\ N = Unused
    /\ length_argmax = Unused /\ length_out = Unused /\ ret = Unused

Init == InitTrain \/ InitDecodeOf({5}, {0, 47, 512})

Next ==
    \/ ForwardAssertFail
    \/ GlatAssertFail
    \/ GlatFeed
    \/ GlatSample
    \/ ForwardFeed
    \/ ForwardLoss
    \/ DecodeLengthPass
    \/ DecodeInferLength
    \/ DecodeSuppliedLength
    \/ DecodeEncoderRaises
    \/ DecodeShapeError
    \/ DecodePredict

Spec == Init /\ [][Next]_vars

(***************************************************************************)
(* C2: create_mask_and_position_ids marks position p valid iff p < count,  *)
(* and gives it the index p + offset (offset 0 when absent) when valid and *)
(* 0 otherwise; a count of max_len or more marks every position valid and  *)
(* the call returns.                                                       *)
(***************************************************************************)
OffsetOf(b) == IF offset = <<>> THEN 0 ELSE offset[1][b]

C2_PositionDerivation ==
    (pc = "done" /\ entry = "create_mask_and_position_ids") =>
        /\ DOMAIN ret.mask = Examples
        /\ DOMAIN ret.position_ids = Examples
        /\ \A b \in Examples :
              /\ Len(ret.mask[b]) = max_len
              /\ Len(ret.position_ids[b]) = max_len
              /\ \A p \in 0..(max_len - 1) :
                    /\ (ret.mask[b][p + 1] = 1) <=> (p < num_tokens[b])
                    /\ ret.mask[b][p + 1] \in {0, 1}
                    /\ ret.position_ids[b][p + 1] =
                          IF p < num_tokens[b] THEN p + OffsetOf(b) ELSE 0
              /\ (num_tokens[b] >= max_len) =>
                    \A p \in 1..max_len : ret.mask[b][p] = 1

C2_Witness ==
    /\ pc = "done" /\ entry = "create_mask_and_position_ids"
    /\ max_len = 3
    /\ offset # <<>>
    /\ \E b \in Examples : num_tokens[b] = 2 /\ offset[1][b] = 2
                           /\ ret.position_ids[b] = <<2, 3, 0>>
    /\ \E b \in Examples : num_tokens[b] > max_len

(***************************************************************************)
(* C1: in the result of create_attention_mask, entry (i, j) of the joint   *)
(* sequence (source first, then target) is 0 exactly when i is a source    *)
(* position and j a target position, or i or j is invalid; it is 1 for     *)
(* every other pair.                                                       *)
(***************************************************************************)
IsSourcePos(i) == i <= Width(source_mask)

ValidPos(b, i) ==
    IF IsSourcePos(i) THEN source_mask[b][i] = 1
    ELSE target_mask[b][i - Width(source_mask)] = 1

GlatReturned == entry = "forward_glat" /\ pc = "done"

ValidTargets(b) == SumSeq(target_mask[b])

\* the positions at which the returned pseudo-target differs from the all-mask one
Differing(b) == {p \in 1..Width(pseudo_ids) : pseudo_ids[b][p] # mask_word_id}

\* the valid positions whose ground-truth token is the mask token itself
MaskedTruth(b) ==
    {p \in 1..Width(target_ids) :
        target_mask[b][p] = 1 /\ target_ids[b][p] = mask_word_id}

GlatBoundOnN(b) ==
    /\ 0 <= N[b]
    /\ N[b] * glat_f[2] <= glat_f[1] * ValidTargets(b)

DifferingAreRevealed(b) ==
    \A p \in Differing(b) :
        target_mask[b][p] = 1 /\ pseudo_ids[b][p] = target_ids[b][p]

\* C3 as claimed: for every example 0 <= N <= glat_f * (valid target
\* positions), and the positions at which the returned pseudo-target differs
\* from the all-mask original are exactly N in number, all valid, each
\* holding the ground-truth token.
C3_Original ==
    GlatReturned =>
        \A b \in Examples :
            /\ GlatBoundOnN(b)
            /\ Cardinality(Differing(b)) = N[b]
            /\ DifferingAreRevealed(b)

\* C3 as amended: for every example 0 <= N <= glat_f * (valid target
\* positions); the differing positions are all valid and each holds the
\* ground-truth token; their number is at most min(N, valid) and at least
\* min(N, valid) less the valid positions whose ground truth is the mask
\* token; it is exactly N when glat_f <= 1 and no valid ground-truth token is
\* the mask token.
C3_GlatBound ==
    GlatReturned =>
        \A b \in Examples :
            LET revealed == Min(N[b], ValidTargets(b)) IN
            /\ GlatBoundOnN(b)
            /\ DifferingAreRevealed(b)
            /\ Cardinality(Differing(b)) <= revealed
            /\ Cardinality(Differing(b)) >= revealed - Cardinality(MaskedTruth(b))
            /\ (glat_f[1] <= glat_f[2] /\ MaskedTruth(b) = {}) =>
                  Cardinality(Differing(b)) = N[b]
            /\ ret = <<pseudo_ids, N>>

C3_Witness ==
    /\ GlatReturned
    /\ glat_f = <<1, 2>>
    /\ \E b \in Examples :
          /\ ValidTargets(b) = 2 /\ N[b] = 1
          /\ MaskedTruth(b) = {}
          /\ Cardinality(Differing(b)) = 1
    /\ \E b \in Examples : ValidTargets(b) < Width(target_ids) /\ N[b] = 0

(***************************************************************************)
(* C7: the assertions of forward.                                          *)
(***************************************************************************)
BadWidths ==
    \/ Width(source_ids) <= 0
    \/ Width(target_ids) <= 0
    \/ Width(pseudo_ids) <= 0
    \/ Width(pseudo_ids) # Width(target_ids)

Ended == pc \in {"done", "AssertionError", "IndexError"}

\* C7 as claimed: every forward call, in every mode (training, training
\* with GLAT, decode), whose source, target or pseudo-target width is not
\* positive or whose pseudo-target width differs from the target width
\* aborts with an assertion failure instead of returning a result.
C7_Original ==
    (entry = "forward" /\ BadWidths /\ Ended) =>
        (pc = "AssertionError" /\ ret = Unused)

\* C7 as amended: every forward call in a training mode (with or without
\* GLAT) with such widths aborts with an assertion failure, before any
\* encoder pass, instead of returning a result.
C7_FailFast ==
    (entry = "forward" /\ ~decode /\ BadWidths) =>
        /\ pc \in {"start", "AssertionError"}
        /\ ret = Unused
        /\ bert_calls = <<>>

C7_Witness ==
    /\ entry = "forward" /\ ~decode /\ use_glat
    /\ pc = "AssertionError"
    /\ Width(source_ids) > 0 /\ Width(target_ids) = 2 /\ Width(pseudo_ids) = 1

(***************************************************************************)
(* C8: the mode of a call and its encoder passes.                          *)
(***************************************************************************)
IsPrefix(x, y) == Len(x) <= Len(y) /\ x = SubSeq(y, 1, Len(x))

\* the steps of a call that returns, in order
StepsOf ==
    IF entry = "forward" /\ decode THEN <<"bert:length", "bert:decode">>
    ELSE IF entry = "forward" /\ use_glat
         THEN <<"bert:glat", "glat_mutate", "bert:train">>
    ELSE IF entry = "forward" THEN <<"bert:train">>
    ELSE IF length_arg = <<>> THEN <<"bert:length", "bert:decode">>
    ELSE <<"bert:decode">>

\* how many values a call returns
ArityOf ==
    IF entry = "forward" /\ decode THEN 4
    ELSE IF entry = "forward" /\ use_glat THEN 3
    ELSE 2

ModesAndPasses ==
    /\ IsPrefix(bert_calls, StepsOf)
    /\ pc = "done" => (bert_calls = StepsOf /\ Len(ret.out) = ArityOf)
    /\ (entry = "forward" /\ ~decode /\ use_glat) =>
          /\ pc = "bert_glat" =>
                input_ids = Cat(source_ids, Full(Width(pseudo_ids), mask_word_id))
          /\ pc \in {"bert_train", "done"} =>
                input_ids = Cat(source_ids, pseudo_ids)
          /\ pc = "done" =>
                ret.out[3] = <<SumSeq(N), Cardinality(Examples)>>

DecodeFed ==
    /\ Decoding \/ entry = "forward_decode"
    /\ pc \in {"bert_decode", "done", "IndexError"}

LengthInferred == Decoding \/ (entry = "forward_decode" /\ length_arg = <<>>)

InRange(l) == MinDecodeLength <= l /\ l <= MaxDecodeLength

\* the columns of the pseudo-target that hold the mask token
MaskTokens(b) ==
    Cardinality({p \in 1..Width(target_mask) :
                    input_ids[b][Width(source_mask) + p] = mask_word_id})

(***************************************************************************)
(* C5 as stated: in every decode call, the length inferred or supplied,    *)
(* the per-example length that builds the pseudo-target and is returned    *)
(* lies in [7, 48], and an inferred argmax r gives min(max(r, 7), 48).     *)
(***************************************************************************)
C5_Original ==
    DecodeFed =>
        \A b \in Examples :
            /\ InRange(length_out[b])
            /\ LengthInferred =>
                  length_out[b] = Min(Max(length_argmax[b], MinDecodeLength),
                                      MaxDecodeLength)

(***************************************************************************)
(* C5 as amended: an inferred argmax r gives the length min(max(r, 7), 48),*)
(* which lies in [7, 48]; a length supplied by the caller is incremented   *)
(* by one and used as it is, without clamping.  In both cases that length  *)
(* is the number of mask tokens of the example's pseudo-target (when not   *)
(* negative) and is the length returned.                                   *)
(***************************************************************************)
C5_LengthClamp ==
    DecodeFed =>
        \A b \in Examples :
            /\ IF LengthInferred
               THEN /\ InRange(length_out[b])
                    /\ length_out[b] = Min(Max(length_argmax[b], MinDecodeLength),
                                           MaxDecodeLength)
               ELSE length_out[b] = length_arg[1][b] + 1
            /\ MaskTokens(b) = Max(length_out[b], 0)
            /\ pc = "done" => ret.out[2][b] = length_out[b]

C5_Witness ==
    /\ pc = "done"
    /\ LengthInferred
    /\ length_argmax = <<3, 60>>
    /\ ret.out[2] = <<7, 48>>

(***************************************************************************)
(* C6: the pseudo-target of the final decode pass is max_b len[b] wide,    *)
(* holds the mask token at every p < len[b] and the pad id at every        *)
(* p >= len[b]; the returned token matrix has that width, holds the        *)
(* head's argmax id at every p < len[b] and the pad id at every            *)
(* p >= len[b].                                                            *)
(***************************************************************************)
C6_DecodeShape ==
    DecodeFed =>
        \A w \in {Max(MaxSeq(length_out), 0)} :
        \A off \in {Width(source_mask)} :
            /\ Width(input_ids) = off + w
            /\ \A b \in Examples, p \in 1..w :
                  input_ids[b][off + p] =
                      (IF p - 1 < length_out[b] THEN mask_word_id ELSE pad_word_id)
            /\ pc = "done" =>
                  /\ Width(ret.out[1]) = w
                  /\ \A b \in Examples, p \in 1..w :
                        ret.out[1][b][p] =
                            (IF p - 1 < length_out[b] THEN ret.head[b][p]
                             ELSE pad_word_id)

C6_Witness ==
    /\ pc = "done"
    /\ length_out = <<7, 48>>
    /\ Width(ret.out[1]) = 48
    /\ ret.out[1][1][7] = 6
    /\ ret.out[1][1][8] = pad_word_id
    /\ input_ids[1][Width(source_mask) + 8] = pad_word_id
    /\ input_ids[2][Width(source_mask) + 48] = mask_word_id

(***************************************************************************)
(* C9 as stated: for every decode call whose source is at most 512 wide,   *)
(* whatever the target length (inferred, or supplied plus one), the joint  *)
(* input of the final pass is at most 512 wide, the source keeps its first *)
(* 512 - target width columns when truncation applies and is unchanged     *)
(* otherwise, and every position index of the input is below 512.          *)
(***************************************************************************)
CapacityKept ==
    \A tl \in {Max(MaxSeq(length_out), 0)} :
    \A S \in {Width(source_ids)} :
    \A kept \in {IF tl + S > MaxPositions THEN MaxPositions - tl ELSE S} :
        /\ Width(input_ids) <= MaxPositions
        /\ Width(source_mask) = kept
        /\ Width(input_ids) = kept + tl
        /\ \A b \in Examples, p \in 1..kept : input_ids[b][p] = source_ids[b][p]
        /\ \A b \in Examples, p \in 1..Width(position_ids) :
              position_ids[b][p] < MaxPositions

C9_Original ==
    (DecodeFed /\ Width(source_ids) <= MaxPositions) => CapacityKept

(***************************************************************************)
(* C9 as amended: the same, for the decode calls whose target width is at  *)
(* most 512 as well, which every inferred length is and which a supplied   *)
(* length of at most 511 is.                                               *)
(***************************************************************************)
C9_Capacity ==
    (/\ DecodeFed
     /\ Width(source_ids) <= MaxPositions
     /\ MaxSeq(length_out) <= MaxPositions) => CapacityKept

C9_Witness ==
    /\ pc = "bert_decode"
    /\ Width(source_ids) = MaxPositions
    /\ length_out = <<7, 48>>
    /\ Width(source_mask) = MaxPositions - 48
    /\ Width(input_ids) = MaxPositions

(***************************************************************************)
(* C10: in every joint encoder input (training pass, GLAT draft pass,      *)
(* final decode pass) a padding position, source or target, has position   *)
(* index 0, a valid source position p has index p, and a valid target      *)
(* position p has index p + the number of valid source tokens of its       *)
(* example.                                                                *)
(***************************************************************************)
JointInput == pc \in {"bert_train", "bert_glat", "bert_decode"}

C10_PositionIndex ==
    JointInput =>
        \A S \in {Width(source_mask)} :
        \A b \in Examples :
        \A count \in {SumSeq(source_mask[b])} :
            /\ \A p \in 1..S :
                  position_ids[b][p] =
                      (IF source_mask[b][p] = 1 THEN p - 1 ELSE 0)
            /\ \A p \in 1..Width(target_mask) :
                  position_ids[b][S + p] =
                      (IF target_mask[b][p] = 1 THEN p - 1 + count ELSE 0)

(***************************************************************************)
(* Exact arithmetic for the loss claims.  A natural number is the sequence *)
(* of its digits in base EpsInv, lowest first and without leading zeros,   *)
(* so that 1e-5 is one unit of the second digit; a fraction is a pair      *)
(* <<numerator, denominator>> of such numbers.                             *)
(***************************************************************************)
Digits(x) ==
    IF x = 0 THEN <<>>
    ELSE IF x < EpsInv THEN <<x>> ELSE <<x % EpsInv, x \div EpsInv>>

DigitAt(a, i) == IF i <= Len(a) THEN a[i] ELSE 0

RECURSIVE Carry(_, _)
Carry(a, c) ==
    IF a = <<>>
    THEN IF c = 0 THEN <<>> ELSE <<c % EpsInv>> \o Carry(<<>>, c \div EpsInv)
    ELSE <<(a[1] + c) % EpsInv>> \o Carry(Tail(a), (a[1] + c) \div EpsInv)

RECURSIVE Trim(_)
Trim(a) ==
    IF a # <<>> /\ a[Len(a)] = 0 THEN Trim(SubSeq(a, 1, Len(a) - 1)) ELSE a

Canon(a) == Trim(Carry(a, 0))

BigAdd(a, b) ==
    Canon([i \in 1..Max(Len(a), Len(b)) |-> DigitAt(a, i) + DigitAt(b, i)])

BigMul(a, b) ==
    IF a = <<>> \/ b = <<>> THEN <<>>
    ELSE Canon([k \in 1..(Len(a) + Len(b) - 1) |->
                   SumSeq([i \in 1..Len(a) |->
                              IF k - i + 1 \in 1..Len(b)
                              THEN a[i] * b[k - i + 1] ELSE 0])])

FracAdd(x, y) ==
    <<BigAdd(BigMul(x[1], y[2]), BigMul(y[1], x[2])), BigMul(x[2], y[2])>>

FracEq(x, y) == BigMul(x[1], y[2]) = BigMul(y[1], x[2])

\* a pair <<num, den>> of integers as a fraction
FracOf(q) == <<Digits(q[1]), Digits(q[2])>>

(***************************************************************************)
(* The valid target positions of example b are those below its count; the  *)
(* claims about the token loss read the per-position losses and the loss   *)
(* that one call of forward in training mode returned.                     *)
(***************************************************************************)
TrainingReturned == Training /\ pc = "done"

ValidTargetPositions(b) ==
    {p \in 1..Width(target_ids) : p - 1 < num_target_tokens[b]}

ValidCount(b) == Cardinality(ValidTargetPositions(b))

ValidLoss(b) ==
    SumSeq([p \in 1..Width(target_ids) |->
               IF p \in ValidTargetPositions(b) THEN ret.masked_lm_loss[b][p]
               ELSE 0])

\* sum(b) / (count(b) + 1e-5)
PerExampleMean(b) ==
    <<Digits(ValidLoss(b) * EpsInv), Digits(ValidCount(b) * EpsInv + 1)>>

RECURSIVE SumOfPerExampleMeans(_)
SumOfPerExampleMeans(k) ==
    IF k = 0 THEN <<Digits(0), Digits(1)>>
    ELSE FracAdd(SumOfPerExampleMeans(k - 1), PerExampleMean(k))

\* (sum over the batch) / (count over the batch + 1e-5)
BatchMean ==
    <<Digits(SumSeq([b \in Examples |-> ValidLoss(b)]) * EpsInv),
      Digits(SumSeq([b \in Examples |-> ValidCount(b)]) * EpsInv + 1)>>

(***************************************************************************)
(* C4 as stated: the token loss that training returns is the sum over the  *)
(* examples b of (sum of the losses at the valid target positions of b) /  *)
(* (number of valid target positions of b + epsilon).                      *)
(***************************************************************************)
C4_Original ==
    TrainingReturned =>
        FracEq(FracOf(ret.out[1]), SumOfPerExampleMeans(Cardinality(Examples)))

(***************************************************************************)
(* C4 as amended: the token loss that training returns is (the sum of the  *)
(* losses at all valid target positions of the batch) / (the number of     *)
(* valid target positions of the whole batch + epsilon): one count taken   *)
(* over the batch normalizes every example.                                *)
(***************************************************************************)
C4_TokenLoss ==
    TrainingReturned => FracEq(FracOf(ret.out[1]), BatchMean)

C4_Witness ==
    /\ TrainingReturned
    /\ num_target_tokens = <<1, 2>>
    /\ Width(target_ids) = 2
    /\ ret.masked_lm_loss = <<<<2, 2>>, <<1, 2>>>>
    /\ ret.out[1] = <<5 * EpsInv, 3 * EpsInv + 1>>

====
